---- MODULE Spec2Model ----
(***************************************************************************)
(* Model of vsphere_create.py: the argument parser get_args, the capacity  *)
(* check ServerConnection.check_hardware, and the script body (__main__)   *)
(* that connects, enumerates hosts and runs the switch flow or a VM flow.  *)
(*                                                                         *)
(* Python values: an optional value (None or v) is the sequence <<>> or    *)
(* <<v>>; a dict is a function whose DOMAIN is the set of keys present.    *)
(***************************************************************************)
EXTENDS Integers, Sequences, FiniteSets, TLC

VARIABLES pc, cli, args, out, err, connected, hostsOk, hosts, i, trace,
          vmsOk, vms, datastore, ret, switches, first

vars == <<pc, cli, args, out, err, connected, hostsOk, hosts, i, trace,
          vmsOk, vms, datastore, ret, switches, first>>

(* ---------------------------- bounds ---------------------------------- *)
\* hosts returned by the host enumeration
MaxHosts == 2
\* virtual-machine objects returned by the VM enumeration
MaxVMs == 2
\* datastores attached to the first datacenter
MaxStores == 2
\* largest requested cpu / ram / disk value
MaxReq == 3
\* raw memory and free-space readings are counted in 1/UnitScale of the
\* unit the request uses (the source divides bytes by 1024*1024 and by
\* 1024*1024*1024)
UnitScale == 2

(* ---------------------------- python helpers -------------------------- *)
None == <<>>
Some(v) == <<v>>
EmptyDict == [k \in {} |-> ""]

\* truth value of an optional string / optional int ("if not result.x")
TruthyStr(x) == x /= None /\ x[1] /= ""
TruthyInt(x) == x /= None /\ x[1] /= 0

\* int(s) on an option string: the digits strings convert, others raise
IsDigits(s) == s \in {"10", "20"}

\* Python 3 round(n / d): round half to even
round(n, d) ==
  LET q == n \div d
      r == n % d
  IN  IF 2 * r < d THEN q
      ELSE IF 2 * r > d THEN q + 1
      ELSE IF q % 2 = 0 THEN q ELSE q + 1

(* ---------------------------- get_args -------------------------------- *)
Names == {"a", "b"}

MtuInputs == {None} \cup {Some(m) : m \in {-1, 0, 1, 1500, 9000, 9001}}
ReqInputs == {None} \cup {Some(n) : n \in 0..MaxReq}

\* the Namespace argparse returns; --name is required by the parser
CliSet ==
  [switch : BOOLEAN, vm : BOOLEAN, name : Names,
   port_group : {None, Some("pg")},
   template : {None, Some("")} \cup {Some(n) : n \in Names},
   vlan : {None, Some("10"), Some("x")},
   mtu : MtuInputs, cpu : ReqInputs, ram : ReqInputs, disk : ReqInputs]

Raise(msg) == [exc |-> msg, args |-> EmptyDict]
Return(a) == [exc |-> "", args |-> a]

\* lines 83-89: Some(value stored in args['mtu']) or None when it raises
mtu_check(c) ==
  IF TruthyInt(c.mtu)
    THEN IF 0 < c.mtu[1] /\ c.mtu[1] < 9001 THEN Some(c.mtu[1]) ELSE None
    ELSE Some(1500)

get_args(c) ==
  IF c.switch /\ c.vm
    THEN Raise("Can not create VM and switch at the same time.")
  ELSE IF c.switch THEN
    IF ~TruthyStr(c.vlan) THEN Raise("No VLAN id provided.")
    ELSE IF ~TruthyStr(c.port_group) THEN Raise("No portgroup provided.")
    ELSE IF mtu_check(c) = None
      THEN Raise("MTU must be a value between 1 and 9000.")
    ELSE Return(("name" :> c.name) @@ ("mtu" :> mtu_check(c)[1])
                @@ ("action" :> "switch") @@ ("vlan" :> c.vlan[1])
                @@ ("port_group" :> c.port_group[1]))
  ELSE IF c.vm THEN
    IF TruthyStr(c.template)
      THEN Return(("name" :> c.name) @@ ("action" :> "vm")
                  @@ ("template" :> c.template[1]))
    ELSE IF ~TruthyStr(c.port_group) THEN Raise("No portgroup provided.")
    ELSE IF ~TruthyInt(c.cpu) THEN Raise("No CPU option provided for VM")
    ELSE IF ~TruthyInt(c.ram) THEN Raise("No RAM option provided for VM")
    ELSE IF ~TruthyInt(c.disk) THEN Raise("No Disk option provided for VM")
    ELSE Return(("name" :> c.name) @@ ("action" :> "vm")
                @@ ("cpu" :> c.cpu[1]) @@ ("ram" :> c.ram[1])
                @@ ("disk" :> c.disk[1])
                @@ ("port_group" :> c.port_group[1]))
  ELSE Raise("No action specified!")

NoCli == [switch |-> FALSE, vm |-> FALSE, name |-> "a", port_group |-> None,
          template |-> None, vlan |-> None, mtu |-> None, cpu |-> None,
          ram |-> None, disk |-> None]

(* get_args as a function of the parsed command line *)
InitArgs ==
  /\ pc = "args_in"
  /\ cli \in CliSet
  /\ args = EmptyDict
  /\ out = <<>>
  /\ err = ""
  /\ connected = FALSE
  /\ hostsOk = TRUE
  /\ hosts = <<>>
  /\ i = 0
  /\ trace = <<>>
  /\ vmsOk = TRUE
  /\ vms = <<>>
  /\ datastore = <<>>
  /\ ret = ""
  /\ switches = {}
  /\ first = None

ParseArgs ==
  /\ pc = "args_in"
  /\ pc' = "args_out"
  /\ args' = get_args(cli).args
  /\ err' = get_args(cli).exc
  /\ UNCHANGED <<cli, out, connected, hostsOk, hosts, i, trace, vmsOk, vms,
                 datastore, ret,
                 switches, first>>

NextArgs == ParseArgs

SpecArgs == InitArgs /\ [][NextArgs]_vars

(* ---------------------------- platform -------------------------------- *)
\* a host handle with the two properties check_hardware reads:
\* cpu = hardware.cpuInfo.numCpuThreads, mem = hardware.memorySize (raw)
HostPool == [cpu : {1, 2}, mem : {1, 3}]

RECURSIVE SeqsUpTo(_, _)
SeqsUpTo(S, n) ==
  IF n = 0 THEN {<<>>}
  ELSE LET shorter == SeqsUpTo(S, n - 1)
       IN  shorter \cup {Append(q, x) : q \in {t \in shorter : Len(t) = n - 1},
                                         x \in S}

HostLists == SeqsUpTo(HostPool, MaxHosts)

\* names of the virtual-machine objects the VM enumeration returns
VmLists == SeqsUpTo(Names, MaxVMs)

\* get_obj(vimtype): the list of objects, or, when the container view
\* raises, the string 'Something went wrong: ...' (ok = FALSE)
get_obj_all(Lists) ==
  {[ok |-> TRUE, list |-> l] : l \in Lists} \cup {[ok |-> FALSE, list |-> <<>>]}

\* how a remote call ends: it returns, raises a platform fault whose msg is
\* set, raises a platform fault whose msg is empty, or raises an exception
\* that is no platform fault and has no msg attribute
CallResults == {"ok", "fault_msg", "fault_nomsg", "exception"}

\* the handler "except Exception as e: if e.msg: print(e.msg) else: print(e)":
\* what it prints, or "AttributeError" when evaluating e.msg raises
except_msg(res) ==
  CASE res = "fault_msg" -> [escapes |-> FALSE, printed |-> "e.msg"]
    [] res = "fault_nomsg" -> [escapes |-> FALSE, printed |-> "e"]
    [] OTHER -> [escapes |-> TRUE, printed |-> "AttributeError"]

Line(step, h, msg) == [step |-> step, host |-> h, msg |-> msg]
Call(op, h, name, res) == [op |-> op, host |-> h, name |-> name, res |-> res]

(* ---------------------------- __main__ -------------------------------- *)
Init ==
  /\ pc = "start"
  /\ cli = NoCli
  /\ args = EmptyDict
  /\ out = <<>>
  /\ err = ""
  /\ connected = FALSE
  /\ hostsOk = TRUE
  /\ hosts = <<>>
  /\ i = 0
  /\ trace = <<>>
  /\ vmsOk = TRUE
  /\ vms = <<>>
  /\ datastore = <<>>
  /\ ret = ""
  /\ switches = {}
  /\ first = None

\* the command line as the branch of get_args that handles it reads it:
\* the options no line of that branch looks at are left out
supplied(c) ==
  IF c.switch = c.vm
    THEN [NoCli EXCEPT !.switch = c.switch, !.vm = c.vm, !.name = c.name]
  ELSE IF c.switch
    THEN [c EXCEPT !.template = None, !.cpu = None, !.ram = None,
                   !.disk = None]
  ELSE IF TruthyStr(c.template)
    THEN [NoCli EXCEPT !.vm = TRUE, !.name = c.name, !.template = c.template]
  ELSE [c EXCEPT !.vlan = None, !.mtu = None]

\* lines 353-358, first half: args = get_args()
GetArgs ==
  /\ pc = "start"
  /\ \E c \in CliSet :
       LET r == get_args(c)
       IN  /\ cli' = supplied(c)
           /\ IF r.exc /= ""
                THEN /\ out' = Append(out, Line("get_args", 0, r.exc))
                     /\ pc' = "exit"
                     /\ args' = args
                ELSE /\ args' = r.args
                     /\ pc' = "conn_args"
                     /\ out' = out
  /\ UNCHANGED <<err, connected, hostsOk, hosts, i, trace, vmsOk, vms,
                 datastore, ret,
                 switches, first>>

\* get_conn_args writes the three host keys into the global args dictionary
\* and returns that same dictionary
get_conn_args(a) ==
  [k \in DOMAIN a \cup {"address", "username", "password"} |->
     IF k \in {"address", "username", "password"} THEN "cfg" ELSE a[k]]

\* lines 353-358, second half: conn_args = get_conn_args(); a missing
\* vsphere.conf or key raises KeyError, reported as invalid arguments
GetConnArgs ==
  /\ pc = "conn_args"
  /\ \E cfgOk \in BOOLEAN :
       IF cfgOk
         THEN /\ args' = get_conn_args(args)
              /\ pc' = "connect"
              /\ out' = out
         ELSE /\ out' = Append(out, Line("get_conn_args", 0, "KeyError"))
              /\ pc' = "exit"
              /\ args' = args
  /\ UNCHANGED <<cli, err, connected, hostsOk, hosts, i, trace, vmsOk, vms,
                 datastore, ret,
                 switches, first>>

\* line 361: ServerConnection(conn_args).  When ConnectNoSSL raises,
\* __init__ returns a string, which Python turns into an uncaught TypeError
Connect ==
  /\ pc = "connect"
  /\ \E ok \in BOOLEAN :
       IF ok
         THEN /\ connected' = TRUE
              /\ pc' = "get_hosts"
              /\ err' = err
         ELSE /\ connected' = FALSE
              /\ pc' = "abort"
              /\ err' = "TypeError"
  /\ UNCHANGED <<cli, args, out, hostsOk, hosts, i, trace, vmsOk, vms,
                 datastore, ret,
                 switches, first>>

\* number of iterations "for host in hosts" can make: the hosts, or the
\* characters of the error string
IterLen == IF hostsOk THEN Len(hosts) ELSE 1

\* a dispatch that enters the switch loop whatever the action is
dispatch_always_switch(a, n) ==
  IF n >= 1 THEN "create_vswitch" ELSE "disconnect"

\* lines 365 / 382-383: where the script goes for the action of a, with n
\* the number of iterations the host loop can make
dispatch(a, n) ==
  IF a["action"] = "vm" THEN "vm_branch"
  ELSE IF a["action"] = "switch"
    THEN IF n >= 1 THEN "create_vswitch" ELSE "disconnect"
  ELSE "disconnect"

\* line 362 and the dispatch of lines 365 / 382
GetHosts ==
  /\ pc = "get_hosts"
  /\ \E r \in get_obj_all(HostLists) :
       /\ hostsOk' = r.ok
       /\ hosts' = r.list
       /\ pc' = dispatch(args, IF r.ok THEN Len(r.list) ELSE 1)
       /\ i' = IF args["action"] = "switch" THEN 1 ELSE i
  /\ UNCHANGED <<cli, args, out, err, connected, trace, vmsOk, vms,
                 datastore, ret,
                 switches, first>>

\* a create_vswitch that makes no call on a host that has the switch
CreateVswitch_skip_existing ==
  /\ pc = "create_vswitch"
  /\ hostsOk
  /\ \E res \in CallResults :
       IF i \in switches
         THEN /\ trace' = trace
              /\ out' = Append(out, Line("create_switch", i, "exists"))
              /\ pc' = "create_portgroup"
         ELSE /\ res \in {"ok", "fault_msg"}
              /\ trace' = Append(trace, Call("create_switch", i, args["name"], res))
              /\ out' = Append(out, Line("create_switch", i, res))
              /\ pc' = "create_portgroup"
  /\ switches' = switches \cup {i}
  /\ UNCHANGED <<cli, args, err, connected, hostsOk, hosts, i, vmsOk, vms,
                 datastore, ret, first>>

\* lines 219-225 for host number i; switches is the set of hosts on which
\* the platform holds the switch
CreateVswitch ==
  /\ pc = "create_vswitch"
  /\ \E res \in CallResults :
       IF ~hostsOk
         \* a character of the error string has no configManager: the
         \* AttributeError is caught and e.msg raises a second one
         THEN /\ trace' = trace
              /\ out' = out
              /\ err' = "AttributeError"
              /\ pc' = "abort"
              /\ switches' = switches
         ELSE /\ trace' = Append(trace, Call("create_switch", i, args["name"], res))
              /\ IF res = "ok"
                   THEN /\ out' = Append(out, Line("create_switch", i, "ok"))
                        /\ err' = err
                        /\ pc' = "create_portgroup"
                        /\ switches' = switches \cup {i}
                   ELSE IF except_msg(res).escapes
                     THEN /\ out' = out
                          /\ err' = except_msg(res).printed
                          /\ pc' = "abort"
                          /\ switches' = switches
                     ELSE /\ out' = Append(out, Line("create_switch", i,
                                                     except_msg(res).printed))
                          /\ err' = err
                          /\ pc' = "create_portgroup"
                          /\ switches' = switches
  /\ UNCHANGED <<cli, args, connected, hostsOk, hosts, i, vmsOk, vms,
                 datastore, ret, first>>

\* lines 231-255 for host number i, then the next iteration of line 383
CreatePortgroup ==
  /\ pc = "create_portgroup"
  /\ \E res \in CallResults :
       IF ~IsDigits(args["vlan"])
         \* line 239: int(vlan) is outside the try
         THEN /\ trace' = trace
              /\ out' = out
              /\ err' = "ValueError"
              /\ pc' = "abort"
              /\ i' = i
         ELSE /\ trace' = Append(trace, Call("create_portgroup", i,
                                             args["port_group"], res))
              /\ IF res /= "ok" /\ except_msg(res).escapes
                   THEN /\ out' = out
                        /\ err' = except_msg(res).printed
                        /\ pc' = "abort"
                        /\ i' = i
                   ELSE /\ out' = Append(out, Line("create_portgroup", i,
                                   IF res = "ok" THEN "ok"
                                   ELSE except_msg(res).printed))
                        /\ err' = err
                        /\ i' = i + 1
                        /\ pc' = IF i + 1 <= IterLen THEN "create_vswitch"
                                 ELSE "disconnect"
  /\ UNCHANGED <<cli, args, connected, hostsOk, hosts, vmsOk, vms,
                 datastore, ret,
                 switches, first>>

(* ---------------------------- clone_vm -------------------------------- *)
\* the value of the local "template" of clone_vm: None, the name string
\* the caller passed, or the virtual-machine object number idx of the list
PyNone == [kind |-> "none", str |-> "", idx |-> 0]
PyStr(s) == [kind |-> "str", str |-> s, idx |-> 0]
PyVm(k) == [kind |-> "vm", str |-> "", idx |-> k]

\* temp.name == template: a name equals only an equal string
name_eq(name, t) == t.kind = "str" /\ t.str = name

\* lines 324-326, from element k on, with t the current value of template
RECURSIVE scan_templates(_, _, _)
scan_templates(vmlist, k, t) ==
  IF k > Len(vmlist) THEN t
  ELSE scan_templates(vmlist, k + 1,
                      IF name_eq(vmlist[k], t) THEN PyVm(k) ELSE t)

\* a resolution that takes the first virtual machine whatever its name
resolve_first(vmlist, template) ==
  IF Len(vmlist) >= 1 THEN PyVm(1) ELSE PyNone

\* lines 322-326: line 323 sets template to None before the loop compares
\* the names with it
resolve_template(vmlist, template) == scan_templates(vmlist, 1, PyNone)

\* line 366: args['template'] on the dictionary get_args built.  get_args
\* stores the key only with a non-empty value, so the else branch of line 371
\* (pc = "vm_spec", lines 372-379) is entered by no run
VmBranch ==
  /\ pc = "vm_branch"
  /\ IF "template" \notin DOMAIN args
       THEN pc' = "abort" /\ err' = "KeyError"
       ELSE /\ err' = err
            /\ pc' = IF args["template"] /= "" THEN "clone_vm" ELSE "vm_spec"
  /\ UNCHANGED <<cli, args, out, connected, hostsOk, hosts, i, trace, vmsOk,
                 vms, datastore, ret,
                 switches, first>>

\* lines 367-370 with clone_vm (lines 318-348) inlined
CloneVm ==
  /\ pc = "clone_vm"
  /\ \E r \in get_obj_all(VmLists), res \in CallResults :
       /\ vmsOk' = r.ok
       /\ vms' = r.list
       /\ IF ~r.ok
            \* a character of the error string has no attribute name; the
            \* AttributeError leaves clone_vm and line 370 prints it
            THEN /\ out' = Append(out, Line("clone_vm", 0, "AttributeError"))
                 /\ trace' = trace
            ELSE LET t == resolve_template(r.list, args["template"])
                 IN  IF t.kind /= "vm"
                       THEN /\ out' = Append(out, Line("clone_vm", 0,
                                                       "Template not found."))
                            /\ trace' = trace
                       ELSE /\ trace' = Append(trace,
                                   Call("clone_vm", t.idx, args["name"], res))
                            /\ out' = Append(out, Line("clone_vm", 0,
                                   IF res = "ok" THEN "Cloning succesfull!"
                                   ELSE "e"))
  /\ pc' = "disconnect"
  /\ UNCHANGED <<cli, args, err, connected, hostsOk, hosts, i, datastore, ret,
                 switches, first>>

\* lines 388-389: disconnect swallows its own exception
Disconnect ==
  /\ pc = "disconnect"
  /\ \E ok \in BOOLEAN : connected' = ~ok
  /\ out' = Append(out, Line("main", 0, "Script complete..."))
  /\ pc' = "done"
  /\ UNCHANGED <<cli, args, err, hostsOk, hosts, i, trace, vmsOk, vms,
                 datastore, ret,
                 switches, first>>

Next ==
  \/ GetArgs
  \/ GetConnArgs
  \/ Connect
  \/ GetHosts
  \/ VmBranch
  \/ CloneVm
  \/ CreateVswitch
  \/ CreatePortgroup
  \/ Disconnect

Spec == Init /\ [][Next]_vars

(* two runs of the script with the same command line on the same cluster *)
\* the second start of the script after a finished switch run: get_args,
\* get_conn_args, the connection and the host enumeration give what they
\* gave the first time; first keeps the hosts the first run called
\* AddVirtualSwitch on and the hosts that held the switch when it ended
Rerun ==
  /\ pc = "done"
  /\ first = None
  /\ "action" \in DOMAIN args /\ args["action"] = "switch"
  /\ first' = Some([attempted |-> {trace[k].host : k \in
                      {j \in 1..Len(trace) : trace[j].op = "create_switch"}},
                    existing |-> switches])
  /\ out' = <<>>
  /\ trace' = <<>>
  /\ connected' = TRUE
  /\ i' = 1
  /\ pc' = dispatch(args, IterLen)
  /\ UNCHANGED <<cli, args, err, hostsOk, hosts, vmsOk, vms, datastore, ret,
                 switches>>

NextTwice == Next \/ Rerun

SpecTwice == Init /\ [][NextTwice]_vars

(* ---------------------------- check_hardware -------------------------- *)
StoreNames == {"NFSstore", "local", "iso"}
StorePool == [name : StoreNames, free : {1, 3, 5}]

\* the datastores of a datacenter have distinct names
StoreLists ==
  {l \in SeqsUpTo(StorePool, MaxStores) :
     \A j, k \in 1..Len(l) : l[j].name = l[k].name => j = k}

\* lines 179-181: free_disk after the loop, None while it is unbound
RECURSIVE free_disk(_, _, _)
free_disk(ds, k, f) ==
  IF k > Len(ds) THEN f
  ELSE free_disk(ds, k + 1,
                 IF ds[k].name = "NFSstore"
                   THEN Some(round(ds[k].free, UnitScale)) ELSE f)

\* a loop that keeps the memory of the host that raised the cpu maximum
RECURSIVE scan_hosts_coupled(_, _, _)
scan_hosts_coupled(hs, k, s) ==
  IF k > Len(hs) THEN s
  ELSE scan_hosts_coupled(hs, k + 1,
         IF hs[k].cpu > s.cpu
           THEN [cpu |-> hs[k].cpu, mem |-> round(hs[k].mem, UnitScale)]
           ELSE s)

\* lines 182-194: saved_cpu and saved_memory after the loop
RECURSIVE scan_hosts(_, _, _)
scan_hosts(hs, k, s) ==
  IF k > Len(hs) THEN s
  ELSE LET cpu == hs[k].cpu
           mem == round(hs[k].mem, UnitScale)
       IN  scan_hosts(hs, k + 1,
                      [cpu |-> IF cpu > s.cpu THEN cpu ELSE s.cpu,
                       mem |-> IF mem > s.mem THEN mem ELSE s.mem])

\* the three checks with RAM tested before CPU
checks_ram_first(a, saved, free) ==
  IF a["ram"] > saved.mem THEN "ram"
  ELSE IF a["cpu"] > saved.cpu THEN "cpu"
  ELSE IF free = None THEN "UnboundLocalError"
  ELSE IF a["disk"] > free[1] THEN "disk"
  ELSE "True"

\* lines 196-203: the value returned, or the exception raised
checks(a, saved, free) ==
  IF a["cpu"] > saved.cpu THEN "cpu"
  ELSE IF a["ram"] > saved.mem THEN "ram"
  ELSE IF free = None THEN "UnboundLocalError"
  ELSE IF a["disk"] > free[1] THEN "disk"
  ELSE "True"

check_hardware(hs, ds, a) ==
  checks(a, scan_hosts(hs, 1, [cpu |-> 0, mem |-> 0]), free_disk(ds, 1, None))

\* the dictionaries get_args returns for a VM built from raw hardware options
SpecArgDicts ==
  {get_args(c).args : c \in {d \in CliSet : d.vm /\ ~d.switch
                               /\ ~TruthyStr(d.template)
                               /\ get_args(d).exc = ""}}

(* check_hardware as a function of the hosts, the datastores and args *)
InitCap ==
  /\ pc = "cap_in"
  /\ cli = NoCli
  /\ args \in SpecArgDicts
  /\ out = <<>>
  /\ err = ""
  /\ connected = TRUE
  /\ hostsOk = TRUE
  /\ hosts \in HostLists
  /\ i = 0
  /\ trace = <<>>
  /\ vmsOk = TRUE
  /\ vms = <<>>
  /\ datastore \in StoreLists
  /\ ret = ""
  /\ switches = {}
  /\ first = None

CheckHardware ==
  /\ pc = "cap_in"
  /\ pc' = "cap_out"
  /\ ret' = check_hardware(hosts, datastore, args)
  /\ UNCHANGED <<cli, args, out, err, connected, hostsOk, hosts, i, trace,
                 vmsOk, vms, datastore,
                 switches, first>>

NextCap == CheckHardware

SpecCap == InitCap /\ [][NextCap]_vars

(* ---------------------------- properties ------------------------------ *)
\* the session was established and the run has reached an end
RunEnded == pc = "done" \/ (pc = "abort" /\ err /= "TypeError")

IsSwitch == "action" \in DOMAIN args /\ args["action"] = "switch"
IsVmSpec == /\ "action" \in DOMAIN args /\ args["action"] = "vm"
            /\ "cpu" \in DOMAIN args
IsVmTemplate == /\ "action" \in DOMAIN args /\ args["action"] = "vm"
                /\ "template" \in DOMAIN args

Ops(op) == {k \in 1..Len(trace) : trace[k].op = op}
Lines(step) == {k \in 1..Len(out) : out[k].step = step}
Mutating == {"create_switch", "create_portgroup", "create_vm", "add_nic",
             "clone_vm"}

\* C1: in the switch flow with a numeric vlan and an enumerated host list,
\* whatever the per-host failures, the ended run has attempted create-switch
\* exactly once on every host and printed exactly one create-switch outcome
\* for every host.
Claim_C1 ==
  (RunEnded /\ IsSwitch /\ hostsOk /\ IsDigits(args["vlan"])) =>
    \A h \in 1..Len(hosts) :
      /\ Cardinality({k \in Ops("create_switch") : trace[k].host = h}) = 1
      /\ Cardinality({k \in Lines("create_switch") : out[k].host = h}) = 1

\* C2: every create-port-group call on a host is preceded by a create-switch
\* call on that host that returned successfully.
Claim_C2 ==
  \A k \in Ops("create_portgroup") :
    \E j \in Ops("create_switch") :
      j < k /\ trace[j].host = trace[k].host /\ trace[j].res = "ok"

\* C3: a VM-from-spec run whose request fits (for some storage state) has,
\* at its end, begun create-vm, and every attach-nic it began follows a
\* create-vm that succeeded.
Claim_C3 ==
  (RunEnded /\ IsVmSpec
     /\ \E ds \in StoreLists : check_hardware(hosts, ds, args) = "True") =>
    /\ Ops("create_vm") /= {}
    /\ \A k \in Ops("add_nic") :
         \E j \in Ops("create_vm") : j < k /\ trace[j].res = "ok"

\* C4: once the session is established the run never ends in an unhandled
\* error.
Claim_C4 == ~(pc = "abort" /\ err /= "TypeError")

\* C5: a VM-from-spec run whose request the capacity check rejects (whatever
\* the storage state) ends normally with exactly one failure outcome, the
\* rejection, and has begun no remote mutating call.
Claim_C5 ==
  (RunEnded /\ IsVmSpec
     /\ \A ds \in StoreLists :
          check_hardware(hosts, ds, args) \in {"cpu", "ram", "disk"}) =>
    /\ pc = "done"
    /\ Cardinality(Lines("check_hardware")) = 1
    /\ \A k \in 1..Len(trace) : trace[k].op \notin Mutating

\* C6: a VM-from-template run in which an enumerated virtual machine has the
\* requested template name ends having begun exactly one clone, of a virtual
\* machine with that name, to the requested target name.
Claim_C6 ==
  (pc = "done" /\ IsVmTemplate /\ vmsOk
     /\ \E k \in 1..Len(vms) : vms[k] = args["template"]) =>
    /\ Cardinality(Ops("clone_vm")) = 1
    /\ \A k \in Ops("clone_vm") :
         /\ trace[k].name = args["name"]
         /\ vms[trace[k].host] = args["template"]

\* C7: a VM-from-template run in which no enumerated virtual machine has the
\* requested template name reports "Template not found." and begins no clone.
Thm_C7 ==
  (pc \in {"disconnect", "done"} /\ IsVmTemplate /\ vmsOk
     /\ \A k \in 1..Len(vms) : vms[k] /= args["template"]) =>
    /\ \E k \in Lines("clone_vm") : out[k].msg = "Template not found."
    /\ Ops("clone_vm") = {}

\* a finished template run over a non-empty VM list without the template
Wit_C7 ==
  /\ pc = "done" /\ IsVmTemplate /\ vmsOk /\ Len(vms) = MaxVMs
  /\ \A k \in 1..Len(vms) : vms[k] /= args["template"]
  /\ \E k \in Lines("clone_vm") : out[k].msg = "Template not found."

\* C8: for a switch command line with vlan and port group, a supplied mtu is
\* accepted unchanged exactly when 1 <= mtu <= 9000 and rejected otherwise,
\* and only an absent mtu gives 1500.
Claim_C8 ==
  (pc = "args_out" /\ cli.switch /\ ~cli.vm /\ TruthyStr(cli.vlan)
     /\ TruthyStr(cli.port_group)) =>
    IF cli.mtu = None THEN err = "" /\ args["mtu"] = 1500
    ELSE IF 1 <= cli.mtu[1] /\ cli.mtu[1] <= 9000
      THEN err = "" /\ args["mtu"] = cli.mtu[1]
      ELSE err = "MTU must be a value between 1 and 9000."

\* the greatest element of a non-empty set of integers
SetMax(S) == CHOOSE x \in S : \A y \in S : y <= x
MaxCpuOf(hs) == SetMax({0} \cup {hs[k].cpu : k \in 1..Len(hs)})
MaxMemOf(hs) == round(SetMax({0} \cup {hs[k].mem : k \in 1..Len(hs)}), UnitScale)

\* C9: the rejection names CPU whenever the requested cpu exceeds the maximum
\* cpu, RAM only if the cpu fits, disk only if cpu and ram both fit.
Thm_C9 ==
  pc = "cap_out" =>
    /\ (args["cpu"] > MaxCpuOf(hosts) => ret = "cpu")
    /\ (ret = "cpu" => args["cpu"] > MaxCpuOf(hosts))
    /\ (ret = "ram" => /\ args["cpu"] <= MaxCpuOf(hosts)
                       /\ args["ram"] > MaxMemOf(hosts))
    /\ (ret = "disk" => /\ args["cpu"] <= MaxCpuOf(hosts)
                        /\ args["ram"] <= MaxMemOf(hosts))

\* cpu, ram and disk all exceed what is available and CPU is named
Wit_C9 ==
  /\ pc = "cap_out" /\ ret = "cpu" /\ hosts /= <<>>
  /\ args["ram"] > MaxMemOf(hosts)
  /\ \E k \in 1..Len(datastore) :
       /\ datastore[k].name = "NFSstore"
       /\ args["disk"] > round(datastore[k].free, UnitScale)

\* C10: over a non-empty host list the check reports a fit exactly when
\* cpu <= the maximum cpu over all hosts, ram <= the maximum memory over all
\* hosts and disk <= the free space of the datastore named NFSstore.
Thm_C10 ==
  (pc = "cap_out" /\ hosts /= <<>>) =>
    (ret = "True" <=>
       /\ args["cpu"] <= MaxCpuOf(hosts)
       /\ args["ram"] <= MaxMemOf(hosts)
       /\ \E k \in 1..Len(datastore) :
            /\ datastore[k].name = "NFSstore"
            /\ args["disk"] <= round(datastore[k].free, UnitScale))

\* a fit that needs the cpu of one host and the memory of another
Wit_C10 ==
  /\ pc = "cap_out" /\ ret = "True" /\ Len(hosts) = 2
  /\ \A k \in 1..2 : args["cpu"] > hosts[k].cpu
                       \/ args["ram"] > round(hosts[k].mem, UnitScale)

\* index of the first host, in input order, with the greatest cpu value
FirstMaxCpu(hs) ==
  CHOOSE k \in 1..Len(hs) :
    /\ hs[k].cpu = MaxCpuOf(hs)
    /\ \A j \in 1..(k - 1) : hs[j].cpu < hs[k].cpu

\* C11: a VM-from-spec run whose request fits (for some storage state) over a
\* non-empty host list ends having begun create-vm against the first host
\* with the greatest cpu-thread count.
Claim_C11 ==
  (RunEnded /\ IsVmSpec /\ hostsOk /\ hosts /= <<>>
     /\ \E ds \in StoreLists : check_hardware(hosts, ds, args) = "True") =>
    \E k \in Ops("create_vm") : trace[k].host = FirstMaxCpu(hosts)

\* C12: over an empty host list the evaluation ends in an input error: it
\* neither reports a fit nor a capacity rejection naming cpu, ram or disk.
Claim_C12 ==
  (pc = "cap_out" /\ hosts = <<>>) =>
    ret \notin {"True", "cpu", "ram", "disk"}

\* the session was established at some point of the run
SessionEstablished ==
  /\ pc \notin {"start", "conn_args", "connect", "exit"}
  /\ ~(pc = "abort" /\ err = "TypeError")

\* a command line that fails validation: both or no action, a missing
\* required option of the active variant, or an mtu outside 1..9000
InvalidRequest(c) ==
  \/ c.switch /\ c.vm
  \/ ~c.switch /\ ~c.vm
  \/ /\ c.switch
     /\ \/ ~TruthyStr(c.vlan)
        \/ ~TruthyStr(c.port_group)
        \/ c.mtu /= None /\ ~(1 <= c.mtu[1] /\ c.mtu[1] <= 9000)
  \/ /\ c.vm /\ ~TruthyStr(c.template)
     /\ \/ ~TruthyStr(c.port_group)
        \/ ~TruthyInt(c.cpu) \/ ~TruthyInt(c.ram) \/ ~TruthyInt(c.disk)

\* C13: in a run whose command line fails validation no session is ever
\* established and no remote call is made.
Claim_C13 ==
  (pc /= "start" /\ InvalidRequest(cli)) =>
    ~SessionEstablished /\ trace = <<>>

\* the remote operations of the variant the request selects
VariantOps ==
  IF IsSwitch THEN {"create_switch", "create_portgroup"}
  ELSE IF IsVmTemplate THEN {"clone_vm"}
  ELSE IF IsVmSpec THEN {"create_vm", "add_nic"}
  ELSE {}

\* C14: every remote operation of a run belongs to the one variant the
\* request selects; operations of two variants never occur in one run.
Thm_C14 == \A k \in 1..Len(trace) : trace[k].op \in VariantOps

\* a finished switch run that made both switch-flow calls
Wit_C14 ==
  /\ pc = "done" /\ IsSwitch
  /\ Ops("create_switch") /= {} /\ Ops("create_portgroup") /= {}

\* C15: when the script is run twice with the same switch request on the
\* same cluster and both runs end normally, each run has called create-switch
\* on every host, also on the hosts that already held the switch.
Thm_C15 ==
  (pc = "done" /\ first /= None) =>
    \A h \in 1..Len(hosts) :
      /\ h \in first[1].attempted
      /\ \E k \in Ops("create_switch") : trace[k].host = h

\* a finished second run over hosts that all held the switch when it began
Wit_C15 ==
  /\ pc = "done" /\ first /= None /\ Len(hosts) >= 2
  /\ first[1].existing = 1..Len(hosts)
  /\ \A h \in 1..Len(hosts) :
       \E k \in Ops("create_switch") :
         trace[k].host = h /\ trace[k].res = "fault_msg"

\* C16: a VM-from-spec run whose request fits (for some storage state) ends
\* having looked up the network handle and the new VM's handle, both after
\* a create-vm call and neither before it.
Claim_C16 ==
  (RunEnded /\ IsVmSpec
     /\ \E ds \in StoreLists : check_hardware(hosts, ds, args) = "True") =>
    /\ Ops("get_obj_network") /= {} /\ Ops("get_obj_vm") /= {}
    /\ \A k \in Ops("get_obj_network") \cup Ops("get_obj_vm") :
         \E j \in Ops("create_vm") : j < k

\* C17: a run that established a session ends with the disconnect made, as
\* its last step: the closing line of lines 388-389 is the last thing the
\* run reports and the session is no longer in use.
Claim_C17 ==
  (SessionEstablished /\ pc \in {"done", "abort"}) =>
    /\ Lines("main") /= {}
    /\ out[Len(out)].step = "main"

====
